---- MODULE Spec2Model ----
(***************************************************************************)
(* Model of dxf-label-diff: the symbol classifier (common_utils.py), the   *)
(* coordinate rounding, the coordinate aggregator and the rename detector  *)
(* (coordinate_comparison.py), the batch comparison compare_labels_multi   *)
(* (compare_labels.py) and the page script app() (app.py).                 *)
(*                                                                         *)
(* A label is a Python str, modelled as the sequence of its code points    *)
(* ("R10" is <<82, 49, 48>>), so that sorted() is the code-point           *)
(* lexicographic order and the regular expressions see single characters.  *)
(* Coordinates are integers (multiples of one drawing unit).               *)
(***************************************************************************)
EXTENDS Integers, Sequences, FiniteSets, TLC

VARIABLES
    unit,                     \* which component this behaviour exercises
    called,                   \* names of the functions already applied
    counter_a, counter_b,     \* aggregate_by_label: Counters of (label, x, y)
    label_summary,            \* aggregate_by_label: its return value
    group_a, group_b,         \* find_label_change_pairs: coordinate -> Counter
    change_pairs,             \* find_label_change_pairs: its return value
    change_rows,              \* build_label_change_rows: its return value
    labels,                   \* classifier: the input label list
    filter_non_parts,         \* option: keep reference-designator candidates only
    validate_ref_designators, \* option: validate the kept candidates
    filter_result,            \* filter_non_circuit_symbols: (kept list, excluded count)
    process_result,           \* process_circuit_symbol_labels: its result dict
    file_pairs,               \* compare_labels_multi: the batch
    sort_order,               \* option: "asc" | "desc" | "none"
    compare_with_coordinates, \* option
    coordinate_tolerance,     \* option
    runs,                     \* compare_labels_multi: one record per invocation
    round_value,              \* round_coordinate: the coordinate value
    round_tolerance,          \* round_coordinate: the tolerance
    rounded,                  \* compare_labels.round_coordinate(value, tolerance)
    rounded_again,            \* compare_labels.round_coordinate(rounded, tolerance)
    rounded_cc,               \* coordinate_comparison.round_coordinate(value, tolerance)
    file_pairs_valid,         \* app: the registered pairs with both files uploaded
    app_pc,                   \* app: position of the script run
    attempt,                  \* app: number of clicks on the compare button so far
    temp_file_pairs,          \* app: the pairs with their temporary files
    temp_files_to_cleanup,    \* app: the temporary files to delete
    temp_files,               \* the temporary files that exist on disk
    session_state,            \* app: st.session_state
    shown                     \* app: what the last script run displayed

aggVars == <<counter_a, counter_b, label_summary>>
chgVars == <<group_a, group_b, change_pairs, change_rows>>
clsVars == <<labels, filter_result, process_result>>
optVars == <<filter_non_parts, validate_ref_designators>>
cmpVars == <<file_pairs, sort_order, compare_with_coordinates, coordinate_tolerance, runs>>
rndVars == <<round_value, round_tolerance, rounded, rounded_again, rounded_cc>>
appVars == <<file_pairs_valid, app_pc, attempt, temp_file_pairs, temp_files_to_cleanup,
             temp_files, session_state, shown>>
vars == <<unit, called, aggVars, chgVars, clsVars, optVars, cmpVars, rndVars, appVars>>

(***************************************************************************)
(* Bounds of the model                                                     *)
(***************************************************************************)
MaxCount == 2        \* largest count of one (label, x, y) tuple in a Counter
MaxOcc == 3          \* label occurrences per side given to the rename detector
MaxLabels == 2       \* length of the label list given to the classifier
MaxFileLabels == 2   \* label occurrences extracted from one file
MaxCoordinate == 12  \* largest absolute coordinate value given to round_coordinate
MaxTolerance == 4    \* largest tolerance given to round_coordinate

(***************************************************************************)
(* Generic helpers: Python built-ins                                       *)
(***************************************************************************)
Min(a, b) == IF a <= b THEN a ELSE b
Max(a, b) == IF a >= b THEN a ELSE b

\* str < str (and tuple < tuple of numbers): lexicographic order, a proper
\* prefix being smaller
RECURSIVE SeqLess(_, _)
SeqLess(s, t) ==
    IF s = <<>> THEN t # <<>>
    ELSE IF t = <<>> THEN FALSE
    ELSE IF Head(s) # Head(t) THEN Head(s) < Head(t)
    ELSE SeqLess(Tail(s), Tail(t))

\* sorted(S) for a set S of strs (or of coordinate tuples)
RECURSIVE Sorted(_)
Sorted(S) ==
    IF S = {} THEN <<>>
    ELSE LET m == CHOOSE x \in S : \A y \in S \ {x} : SeqLess(x, y)
         IN  <<m>> \o Sorted(S \ {m})

\* [e] * n
RECURSIVE Repeat(_, _)
Repeat(e, n) == IF n <= 0 THEN <<>> ELSE <<e>> \o Repeat(e, n - 1)

\* Counter(seq)
RECURSIVE CounterOf(_)
CounterOf(seq) ==
    IF seq = <<>> THEN <<>>
    ELSE LET c == CounterOf(SubSeq(seq, 1, Len(seq) - 1))
             e == seq[Len(seq)]
         IN  IF e \in DOMAIN c THEN [c EXCEPT ![e] = @ + 1]
             ELSE [k \in DOMAIN c \cup {e} |-> IF k = e THEN 1 ELSE c[k]]

\* Counter.get(key, 0)
Get0(c, k) == IF k \in DOMAIN c THEN c[k] ELSE 0

(***************************************************************************)
(* Labels used by the model                                                *)
(***************************************************************************)
R1 == <<82, 49>>
R2 == <<82, 50>>
R3 == <<82, 51>>
R10 == <<82, 49, 48>>
R20 == <<82, 50, 48>>

(***************************************************************************)
(* Coordinate aggregator: coordinate_comparison.aggregate_by_label         *)
(***************************************************************************)
ZeroSummary == [a_only |-> 0, b_only |-> 0, common |-> 0]

\* if label not in label_summary: label_summary[label] = {...zeros...}
EnsureLabel(summary, label) ==
    IF label \in DOMAIN summary THEN summary
    ELSE [l \in DOMAIN summary \cup {label} |->
            IF l = label THEN ZeroSummary ELSE summary[l]]

\* for label_tuple in a_only_tuples: ... ['a_only'] += count
RECURSIVE ProcessAOnly(_, _, _)
ProcessAOnly(tuples, ca, summary) ==
    IF tuples = {} THEN summary
    ELSE LET t == CHOOSE x \in tuples : TRUE
             s == EnsureLabel(summary, t[1])
         IN  ProcessAOnly(tuples \ {t}, ca,
                 [s EXCEPT ![t[1]].a_only = @ + ca[t]])

\* for label_tuple in b_only_tuples: ... ['b_only'] += count
RECURSIVE ProcessBOnly(_, _, _)
ProcessBOnly(tuples, cb, summary) ==
    IF tuples = {} THEN summary
    ELSE LET t == CHOOSE x \in tuples : TRUE
             s == EnsureLabel(summary, t[1])
         IN  ProcessBOnly(tuples \ {t}, cb,
                 [s EXCEPT ![t[1]].b_only = @ + cb[t]])

\* Plausible slip: the heavier side's remainder is not added to its bucket
CommonStepNoRemainder(s, label, count_a, count_b) ==
    [s EXCEPT ![label].common = @ + Min(count_a, count_b)]

\* the reconciliation of one tuple present in both counters
CommonStep(s, label, count_a, count_b) ==
    LET s1 == [s EXCEPT ![label].common = @ + Min(count_a, count_b)]
    IN  IF count_a > count_b
        THEN [s1 EXCEPT ![label].a_only = @ + (count_a - count_b)]
        ELSE IF count_b > count_a
        THEN [s1 EXCEPT ![label].b_only = @ + (count_b - count_a)]
        ELSE s1

\* for label_tuple in common_tuples: ...
RECURSIVE ProcessCommon(_, _, _, _)
ProcessCommon(tuples, ca, cb, summary) ==
    IF tuples = {} THEN summary
    ELSE LET t == CHOOSE x \in tuples : TRUE
             s == EnsureLabel(summary, t[1])
         IN  ProcessCommon(tuples \ {t}, ca, cb,
                 CommonStep(s, t[1], ca[t], cb[t]))

\* Plausible slip: reconcile by label text alone, ignoring the position
aggregate_by_label_label_only(ca, cb) ==
    LET ls == { t[1] : t \in DOMAIN ca \cup DOMAIN cb }
        TotA(l) == LET RECURSIVE S(_)
                       S(K) == IF K = {} THEN 0
                               ELSE LET k == CHOOSE x \in K : TRUE
                                    IN  ca[k] + S(K \ {k})
                   IN  S({ t \in DOMAIN ca : t[1] = l })
        TotB(l) == LET RECURSIVE S(_)
                       S(K) == IF K = {} THEN 0
                               ELSE LET k == CHOOSE x \in K : TRUE
                                    IN  cb[k] + S(K \ {k})
                   IN  S({ t \in DOMAIN cb : t[1] = l })
    IN  [l \in ls |-> [a_only |-> Max(TotA(l) - TotB(l), 0),
                       b_only |-> Max(TotB(l) - TotA(l), 0),
                       common |-> Min(TotA(l), TotB(l))]]

aggregate_by_label(ca, cb) ==
    LET set_a == DOMAIN ca
        set_b == DOMAIN cb
        a_only_tuples == set_a \ set_b
        b_only_tuples == set_b \ set_a
        common_tuples == set_a \cap set_b
        s1 == ProcessAOnly(a_only_tuples, ca, <<>>)
        s2 == ProcessBOnly(b_only_tuples, cb, s1)
    IN  ProcessCommon(common_tuples, ca, cb, s2)

\* the rows create_data_rows_from_summary appends for one label
SummaryRows(label, summary) ==
    (IF summary.a_only > 0
     THEN << [label |-> label, count_a |-> summary.a_only, count_b |-> 0,
              status |-> "A Only", diff |-> 0 - summary.a_only] >>
     ELSE <<>>)
    \o (IF summary.b_only > 0
        THEN << [label |-> label, count_a |-> 0, count_b |-> summary.b_only,
                 status |-> "B Only", diff |-> summary.b_only] >>
        ELSE <<>>)
    \o (IF summary.common > 0
        THEN << [label |-> label, count_a |-> summary.common,
                 count_b |-> summary.common, status |-> "Same", diff |-> 0] >>
        ELSE <<>>)

RECURSIVE SummaryRowsLoop(_, _)
SummaryRowsLoop(order, summary) ==
    IF order = <<>> THEN <<>>
    ELSE SummaryRows(Head(order), summary[Head(order)])
         \o SummaryRowsLoop(Tail(order), summary)

\* create_data_rows_from_summary: for label in sorted(label_summary.keys())
create_data_rows_from_summary(summary) ==
    SummaryRowsLoop(Sorted(DOMAIN summary), summary)

\* The (label, x, y) tuples the aggregator is exercised on, and the Counters
\* over them (a Counter built from a list holds positive counts only)
AggTuples == { <<l, p[1], p[2]>> : l \in {R10, R20}, p \in {<<100, 200>>, <<300, 400>>} }
AggCounters ==
    UNION { [D -> 1..MaxCount] : D \in SUBSET AggTuples }

(***************************************************************************)
(* Rename detector: coordinate_comparison.find_label_change_pairs          *)
(***************************************************************************)
\* Python's None in the label_a / label_b field of a change pair
None == <<-1>>

ChangePair(coord, la, lb) == [coordinate |-> coord, label_a |-> la, label_b |-> lb]

\* Plausible slip: a label is emitted once, whatever its count
RECURSIVE UnmatchedRowsOnce(_, _, _, _)
UnmatchedRowsOnce(order, coord, cnt, source) ==
    IF order = <<>> THEN <<>>
    ELSE LET label == Head(order)
             row == ChangePair(coord,
                               IF source = "A" THEN label ELSE None,
                               IF source = "B" THEN label ELSE None)
         IN  <<row>> \o UnmatchedRowsOnce(Tail(order), coord, cnt, source)

\* the body of append_unmatched_pairs for the labels of one Counter, in
\* sorted(labels.items()) order
RECURSIVE UnmatchedRows(_, _, _, _)
UnmatchedRows(order, coord, cnt, source) ==
    IF order = <<>> THEN <<>>
    ELSE LET label == Head(order)
             row == ChangePair(coord,
                               IF source = "A" THEN label ELSE None,
                               IF source = "B" THEN label ELSE None)
         IN  Repeat(row, cnt[label]) \o UnmatchedRows(Tail(order), coord, cnt, source)

append_unmatched_pairs(pairs, coord, cnt, source) ==
    pairs \o UnmatchedRows(Sorted(DOMAIN cnt), coord, cnt, source)

\* Plausible slip: identical labels are not cancelled before pairing
RemainingNoCancel(mine, other) == mine

\* remaining_x after the loop over shared_labels: the shared minimum is
\* subtracted and labels that reach 0 are deleted
Remaining(mine, other) ==
    LET left(l) == mine[l] - Min(mine[l], Get0(other, l))
    IN  [l \in { k \in DOMAIN mine : left(k) > 0 } |-> left(l)]

\* sorted(list(counter.elements()))
RECURSIVE ElementsInOrder(_, _)
ElementsInOrder(order, cnt) ==
    IF order = <<>> THEN <<>>
    ELSE Repeat(Head(order), cnt[Head(order)]) \o ElementsInOrder(Tail(order), cnt)
SortedElements(cnt) == ElementsInOrder(Sorted(DOMAIN cnt), cnt)

\* the three loops that emit the pairs of one coordinate
PairLeftovers(coord, labels_a, labels_b) ==
    LET max_pairs == Min(Len(labels_a), Len(labels_b))
    IN  [idx \in 1..max_pairs |-> ChangePair(coord, labels_a[idx], labels_b[idx])]
        \o [k \in 1..(Len(labels_a) - max_pairs) |->
               ChangePair(coord, labels_a[max_pairs + k], None)]
        \o [k \in 1..(Len(labels_b) - max_pairs) |->
               ChangePair(coord, None, labels_b[max_pairs + k])]

\* Plausible slip: the coordinate is skipped only when both sides are empty
\* after the cancellation
CoordStepBothEmpty(pairs, coord, ga, gb) ==
    IF coord \notin DOMAIN ga /\ coord \notin DOMAIN gb THEN pairs
    ELSE IF coord \notin DOMAIN ga
    THEN append_unmatched_pairs(pairs, coord, gb[coord], "B")
    ELSE IF coord \notin DOMAIN gb
    THEN append_unmatched_pairs(pairs, coord, ga[coord], "A")
    ELSE LET remaining_a == Remaining(ga[coord], gb[coord])
             remaining_b == Remaining(gb[coord], ga[coord])
         IN  IF DOMAIN remaining_a = {} /\ DOMAIN remaining_b = {} THEN pairs
             ELSE pairs \o PairLeftovers(coord, SortedElements(remaining_a),
                                         SortedElements(remaining_b))

\* one iteration of "for coord in all_coords"
CoordStep(pairs, coord, ga, gb) ==
    IF coord \notin DOMAIN ga /\ coord \notin DOMAIN gb THEN pairs
    ELSE IF coord \notin DOMAIN ga
    THEN append_unmatched_pairs(pairs, coord, gb[coord], "B")
    ELSE IF coord \notin DOMAIN gb
    THEN append_unmatched_pairs(pairs, coord, ga[coord], "A")
    ELSE LET remaining_a == Remaining(ga[coord], gb[coord])
             remaining_b == Remaining(gb[coord], ga[coord])
         IN  IF DOMAIN remaining_a = {} \/ DOMAIN remaining_b = {} THEN pairs
             ELSE pairs \o PairLeftovers(coord, SortedElements(remaining_a),
                                         SortedElements(remaining_b))

RECURSIVE ChangePairLoop(_, _, _, _)
ChangePairLoop(pairs, all_coords, ga, gb) ==
    IF all_coords = <<>> THEN pairs
    ELSE ChangePairLoop(CoordStep(pairs, Head(all_coords), ga, gb),
                        Tail(all_coords), ga, gb)

find_label_change_pairs(ga, gb) ==
    ChangePairLoop(<<>>, Sorted(DOMAIN ga \cup DOMAIN gb), ga, gb)

\* build_label_change_rows: one row per pair, in the order of the pairs;
\* "pair['label_a'] or ''" turns None (and the empty label) into ''
build_label_change_rows(pairs) ==
    [i \in 1..Len(pairs) |->
        [Coordinate_X |-> pairs[i].coordinate[1],
         Coordinate_Y |-> pairs[i].coordinate[2],
         Label_A |-> IF pairs[i].label_a = None \/ pairs[i].label_a = <<>>
                     THEN <<>> ELSE pairs[i].label_a,
         Label_B |-> IF pairs[i].label_b = None \/ pairs[i].label_b = <<>>
                     THEN <<>> ELSE pairs[i].label_b]]

\* The coordinate groups the detector is exercised on: what
\* group_labels_by_coordinate returns for at most MaxOcc occurrences, i.e.
\* every coordinate it holds maps to a non-empty Counter of positive counts
ChgCoords == { <<10, 10>>, <<20, 10>> }
ChgLabels == { R1, R2, R3 }
ChgSlots == ChgCoords \X ChgLabels
RECURSIVE SlotTotal(_, _)
SlotTotal(f, S) ==
    IF S = {} THEN 0
    ELSE LET x == CHOOSE y \in S : TRUE IN f[x] + SlotTotal(f, S \ {x})
GroupOf(f) ==
    [c \in { d \in ChgCoords : \E l \in ChgLabels : f[<<d, l>>] > 0 } |->
        [l \in { k \in ChgLabels : f[<<c, k>>] > 0 } |-> f[<<c, l>>]]]
ChgGroups ==
    { GroupOf(f) : f \in { g \in [ChgSlots -> 0..MaxOcc] : SlotTotal(g, ChgSlots) <= MaxOcc } }

(***************************************************************************)
(* Symbol classifier: common_utils.py                                      *)
(***************************************************************************)
\* Character classes of the regular expressions, over code points
Chr(c) == [neg |-> FALSE, chars |-> {c}]
Letter == [neg |-> FALSE, chars |-> (65..90) \cup (97..122)]   \* [A-Za-z]
Upper == [neg |-> FALSE, chars |-> 65..90]                     \* [A-Z]
Digit == [neg |-> FALSE, chars |-> 48..57]                     \* \d on ASCII input
NotClose == [neg |-> TRUE, chars |-> {41}]                     \* [^)]
\* a class repeated lo..hi times (hi = -1: unbounded)
Rep(cls, lo, hi) == [cls |-> cls, lo |-> lo, hi |-> hi]

InClass(cls, c) == IF cls.neg THEN c \notin cls.chars ELSE c \in cls.chars

\* the positions at which one repeated class can end when it starts after
\* the first i characters of s
AtomEnds(atom, s, i) ==
    { j \in i..Len(s) :
        /\ j - i >= atom.lo
        /\ atom.hi = -1 \/ j - i <= atom.hi
        /\ \A k \in (i + 1)..j : InClass(atom.cls, s[k]) }

\* the positions at which the whole pattern can end when matched from the
\* start of s (the leading ^)
RECURSIVE PatternEnds(_, _, _)
PatternEnds(pat, s, starts) ==
    IF pat = <<>> THEN starts
    ELSE PatternEnds(Tail(pat), s, UNION { AtomEnds(Head(pat), s, i) : i \in starts })

\* Python's $ (no MULTILINE flag): the end of the string, or just before a
\* newline that is the last character
Dollar(s, j) == j = Len(s) \/ (j = Len(s) - 1 /\ s[Len(s)] = 10)

\* bool(re.match(pattern, label)) for a pattern of the form ^...$
re_match(pat, s) == \E j \in PatternEnds(pat, s, {0}) : Dollar(s, j)

patterns == <<
    \* ^[A-Za-z]{2,}$
    << Rep(Letter, 2, -1) >>,
    \* ^[A-Za-z]+\d+$
    << Rep(Letter, 1, -1), Rep(Digit, 1, -1) >>,
    \* ^[A-Za-z]+\d+[A-Za-z]+$
    << Rep(Letter, 1, -1), Rep(Digit, 1, -1), Rep(Letter, 1, -1) >>,
    \* ^[A-Za-z]{2,}\([^)]*\)$
    << Rep(Letter, 2, -1), Rep(Chr(40), 1, 1), Rep(NotClose, 0, -1), Rep(Chr(41), 1, 1) >>,
    \* ^[A-Za-z]+\d+\([^)]*\)$
    << Rep(Letter, 1, -1), Rep(Digit, 1, -1), Rep(Chr(40), 1, 1), Rep(NotClose, 0, -1), Rep(Chr(41), 1, 1) >>,
    \* ^[A-Za-z]+\d+[A-Za-z]+\([^)]*\)$
    << Rep(Letter, 1, -1), Rep(Digit, 1, -1), Rep(Letter, 1, -1), Rep(Chr(40), 1, 1), Rep(NotClose, 0, -1), Rep(Chr(41), 1, 1) >>
>>
standard_patterns == <<
    \* ^CB\d+$
    << Rep(Chr(67), 1, 1), Rep(Chr(66), 1, 1), Rep(Digit, 1, -1) >>,
    \* ^ELB\(CB\)\d+$
    << Rep(Chr(69), 1, 1), Rep(Chr(76), 1, 1), Rep(Chr(66), 1, 1), Rep(Chr(40), 1, 1), Rep(Chr(67), 1, 1), Rep(Chr(66), 1, 1), Rep(Chr(41), 1, 1), Rep(Digit, 1, -1) >>,
    \* ^MCCB\d+$
    << Rep(Chr(77), 1, 1), Rep(Chr(67), 1, 1), Rep(Chr(67), 1, 1), Rep(Chr(66), 1, 1), Rep(Digit, 1, -1) >>,
    \* ^NFB\d+$
    << Rep(Chr(78), 1, 1), Rep(Chr(70), 1, 1), Rep(Chr(66), 1, 1), Rep(Digit, 1, -1) >>,
    \* ^R\d*$
    << Rep(Chr(82), 1, 1), Rep(Digit, 0, -1) >>,
    \* ^C\d*$
    << Rep(Chr(67), 1, 1), Rep(Digit, 0, -1) >>,
    \* ^L\d*$
    << Rep(Chr(76), 1, 1), Rep(Digit, 0, -1) >>,
    \* ^Q\d*$
    << Rep(Chr(81), 1, 1), Rep(Digit, 0, -1) >>,
    \* ^U\d*[A-Z]*$
    << Rep(Chr(85), 1, 1), Rep(Digit, 0, -1), Rep(Upper, 0, -1) >>,
    \* ^PSW?\d*$
    << Rep(Chr(80), 1, 1), Rep(Chr(83), 1, 1), Rep(Chr(87), 0, 1), Rep(Digit, 0, -1) >>,
    \* ^DC\d*$
    << Rep(Chr(68), 1, 1), Rep(Chr(67), 1, 1), Rep(Digit, 0, -1) >>,
    \* ^AC\d*$
    << Rep(Chr(65), 1, 1), Rep(Chr(67), 1, 1), Rep(Digit, 0, -1) >>,
    \* ^M\d*[A-Z]*$
    << Rep(Chr(77), 1, 1), Rep(Digit, 0, -1), Rep(Upper, 0, -1) >>,
    \* ^MOT\d*$
    << Rep(Chr(77), 1, 1), Rep(Chr(79), 1, 1), Rep(Chr(84), 1, 1), Rep(Digit, 0, -1) >>,
    \* ^K\d*[A-Z]*$
    << Rep(Chr(75), 1, 1), Rep(Digit, 0, -1), Rep(Upper, 0, -1) >>,
    \* ^MC\d*$
    << Rep(Chr(77), 1, 1), Rep(Chr(67), 1, 1), Rep(Digit, 0, -1) >>,
    \* ^S\d*[A-Z]*$
    << Rep(Chr(83), 1, 1), Rep(Digit, 0, -1), Rep(Upper, 0, -1) >>,
    \* ^SW\d*$
    << Rep(Chr(83), 1, 1), Rep(Chr(87), 1, 1), Rep(Digit, 0, -1) >>,
    \* ^PB\d*$
    << Rep(Chr(80), 1, 1), Rep(Chr(66), 1, 1), Rep(Digit, 0, -1) >>,
    \* ^H\d*[A-Z]*$
    << Rep(Chr(72), 1, 1), Rep(Digit, 0, -1), Rep(Upper, 0, -1) >>,
    \* ^HL\d*$
    << Rep(Chr(72), 1, 1), Rep(Chr(76), 1, 1), Rep(Digit, 0, -1) >>,
    \* ^PL\d*$
    << Rep(Chr(80), 1, 1), Rep(Chr(76), 1, 1), Rep(Digit, 0, -1) >>,
    \* ^X\d*[A-Z]*$
    << Rep(Chr(88), 1, 1), Rep(Digit, 0, -1), Rep(Upper, 0, -1) >>,
    \* ^CN\d*$
    << Rep(Chr(67), 1, 1), Rep(Chr(78), 1, 1), Rep(Digit, 0, -1) >>,
    \* ^TB\d*$
    << Rep(Chr(84), 1, 1), Rep(Chr(66), 1, 1), Rep(Digit, 0, -1) >>,
    \* ^F\d*$
    << Rep(Chr(70), 1, 1), Rep(Digit, 0, -1) >>,
    \* ^T\d*$
    << Rep(Chr(84), 1, 1), Rep(Digit, 0, -1) >>,
    \* ^A\d*$
    << Rep(Chr(65), 1, 1), Rep(Digit, 0, -1) >>
>>

\* the loop "for pattern in ...: if re.match(pattern, label): ...; break"
RECURSIVE AnyMatch(_, _)
AnyMatch(pats, label) ==
    IF pats = <<>> THEN FALSE
    ELSE IF re_match(Head(pats), label) THEN TRUE
    ELSE AnyMatch(Tail(pats), label)

\* filter_non_circuit_symbols: <<filtered_labels, excluded_count>>
RECURSIVE filter_non_circuit_symbols(_)
filter_non_circuit_symbols(ls) ==
    IF ls = <<>> THEN <<<<>>, 0>>
    ELSE LET rest == filter_non_circuit_symbols(SubSeq(ls, 1, Len(ls) - 1))
             label == ls[Len(ls)]
         IN  IF AnyMatch(patterns, label)
             THEN <<Append(rest[1], label), rest[2]>>
             ELSE <<rest[1], rest[2] + 1>>

\* validate_circuit_symbols: invalid_symbols
RECURSIVE validate_circuit_symbols(_)
validate_circuit_symbols(ls) ==
    IF ls = <<>> THEN <<>>
    ELSE LET rest == validate_circuit_symbols(SubSeq(ls, 1, Len(ls) - 1))
             label == ls[Len(ls)]
         IN  IF ~AnyMatch(standard_patterns, label)
             THEN Append(rest, label)
             ELSE rest

\* Plausible slip: the invalid designators are removed from the label list
process_circuit_symbol_labels_drop_invalid(ls, filter, validate) ==
    LET filtered == IF filter THEN filter_non_circuit_symbols(ls) ELSE <<ls, 0>>
        invalid == IF validate /\ filter
                   THEN validate_circuit_symbols(filtered[1]) ELSE <<>>
    IN  [labels |-> SelectSeq(filtered[1],
                        LAMBDA l : \A i \in 1..Len(invalid) : invalid[i] # l),
         filtered_count |-> filtered[2],
         invalid_ref_designators |-> invalid]

process_circuit_symbol_labels(ls, filter, validate) ==
    LET result0 == [labels |-> ls, filtered_count |-> 0,
                    invalid_ref_designators |-> <<>>]
        filtered == filter_non_circuit_symbols(ls)
        result1 == IF filter
                   THEN [result0 EXCEPT !.labels = filtered[1],
                                        !.filtered_count = filtered[2]]
                   ELSE result0
    IN  IF validate /\ filter
        THEN [result1 EXCEPT !.invalid_ref_designators =
                                 validate_circuit_symbols(result1.labels)]
        ELSE result1

\* The labels the classifier is exercised on
CNCNT == <<67, 78, 67, 78, 84>>   \* 'CNCNT'
X14A == <<88, 49, 52, 65>>   \* 'X14A'
FB_PAREN == <<70, 66, 40, 41>>   \* 'FB()'
LETTER_A == <<65>>   \* 'A'
DIGITS_12 == <<49, 50>>   \* '12'
ZZZ99 == <<90, 90, 90, 57, 57>>   \* 'ZZZ99'
AB_NEWLINE == <<65, 66, 10>>   \* 'AB\n'
R10_NEWLINE == <<82, 49, 48, 10>>   \* 'R10\n'
ClsPool ==
    { R10, CNCNT, X14A, FB_PAREN, LETTER_A, DIGITS_12, ZZZ99, AB_NEWLINE, R10_NEWLINE,
      <<82, 49, 48, 40, 50, 46, 50, 75, 41>>,   \* 'R10(2.2K)'
      <<85, 50, 51, 66, 40, 68, 65, 67, 41>>,   \* 'U23B(DAC)'
      <<70, 66, 40, 41, 41>>,   \* 'FB())'
      <<69, 76, 66, 40, 67, 66, 41, 49>>,   \* 'ELB(CB)1'
      <<80, 83, 87, 49>>,   \* 'PSW1'
      <<>>,   \* ''
      <<49, 65>>,   \* '1A'
      <<82, 45, 49>>,   \* 'R-1'
      <<77, 83, 83, 40, 77, 79, 84, 79, 82, 41>>,   \* 'MSS(MOTOR)'
      <<114, 49, 48>>,   \* 'r10'
      <<85, 49, 65>> } \* 'U1A'
ClsInputs == UNION { [1..n -> ClsPool] : n \in 0..MaxLabels }

(***************************************************************************)
(* Batch comparison: compare_labels.compare_labels_multi                   *)
(***************************************************************************)
\* Python's round() of the quotient n / d for d > 0: ties go to the even
\* integer
RoundHalfEven(n, d) ==
    LET q == n \div d
        r == n - q * d
    IN  IF 2 * r < d THEN q
        ELSE IF 2 * r > d THEN q + 1
        ELSE IF q % 2 = 0 THEN q ELSE q + 1

\* coordinate_comparison.round_coordinate: round(value / tolerance) * tolerance
coordinate_comparison_round_coordinate(value, tolerance) ==
    IF tolerance > 0
    THEN RoundHalfEven(value, tolerance) * tolerance
    ELSE RoundHalfEven(0 - value, 0 - tolerance) * tolerance

\* Plausible slip: the rounded quotient is not scaled back by the tolerance
round_coordinate_unscaled(value, tolerance) ==
    IF tolerance > 0
    THEN RoundHalfEven(value, tolerance)
    ELSE RoundHalfEven(0 - value, 0 - tolerance)

\* round(value / tolerance) * tolerance, for tolerance # 0 (a tolerance of 0
\* raises ZeroDivisionError, which the caller's step models)
round_coordinate(value, tolerance) ==
    IF tolerance > 0
    THEN RoundHalfEven(value, tolerance) * tolerance
    ELSE RoundHalfEven(0 - value, 0 - tolerance) * tolerance

\* rounded_labels_x: (label, rounded_x, rounded_y) for every extracted tuple
RoundedLabels(ls, tolerance) ==
    [i \in 1..Len(ls) |-> <<ls[i][1],
                            round_coordinate(ls[i][2], tolerance),
                            round_coordinate(ls[i][3], tolerance)>>]

\* str(n) for n >= 0
RECURSIVE Str(_)
Str(n) == IF n < 10 THEN <<48 + n>> ELSE Str(n \div 10) \o <<48 + (n % 10)>>

SheetNameMax == 31
\* sheet_name: the pair name, or "Pair<idx+1>", cut to 31 characters
sheet_name(pair_name, idx) ==
    LET name == IF pair_name # <<>> THEN pair_name
                ELSE <<80, 97, 105, 114>> \o Str(idx + 1)
    IN  SubSeq(name, 1, Min(Len(name), SheetNameMax))

\* Plausible slip: the comparison of the two counts is inverted
StatusInverted(count_a, count_b) ==
    IF count_a > 0 /\ count_b = 0 THEN "A Only"
    ELSE IF count_a = 0 /\ count_b > 0 THEN "B Only"
    ELSE IF count_a = count_b THEN "Different"
    ELSE "Same"

\* the status of one row
Status(count_a, count_b) ==
    IF count_a > 0 /\ count_b = 0 THEN "A Only"
    ELSE IF count_a = 0 /\ count_b > 0 THEN "B Only"
    ELSE IF count_a # count_b THEN "Different"
    ELSE "Same"

\* one row of the DataFrame; count_a and count_b are the columns named after
\* the two files, Diff is the column 'Diff (B-A)'
DiffRow(label, count_a, count_b) ==
    [Label |-> label, count_a |-> count_a, count_b |-> count_b,
     Status |-> Status(count_a, count_b), Diff |-> count_b - count_a]

\* Plausible slip: the rows are built from the labels of A only
AgnosticRowsOnlyA(ca, cb) ==
    LET all_labels == Sorted(DOMAIN ca)
    IN  [i \in 1..Len(all_labels) |->
            DiffRow(all_labels[i], Get0(ca, all_labels[i]), Get0(cb, all_labels[i]))]

\* the rows of the coordinate-agnostic branch: one per label of
\* sorted(set(keys of A + keys of B))
AgnosticRows(ca, cb) ==
    LET all_labels == Sorted(DOMAIN ca \cup DOMAIN cb)
    IN  [i \in 1..Len(all_labels) |->
            DiffRow(all_labels[i], Get0(ca, all_labels[i]), Get0(cb, all_labels[i]))]

\* sorted(set(...), key=lambda x: x[0]): the sort is stable on the label
\* alone and a set has no defined iteration order, so tuples of one label
\* may come in any relative order
RECURSIVE LabelSortedOrders(_)
LabelSortedOrders(S) ==
    IF S = {} THEN { <<>> }
    ELSE UNION { { <<t>> \o rest : rest \in LabelSortedOrders(S \ {t}) } :
                 t \in { u \in S : \A v \in S : ~SeqLess(v[1], u[1]) } }

\* the rows of the coordinate branch, for one order of all_label_tuples
CoordinateRows(all_label_tuples, ca, cb) ==
    [i \in 1..Len(all_label_tuples) |->
        DiffRow(all_label_tuples[i][1], Get0(ca, all_label_tuples[i]),
                Get0(cb, all_label_tuples[i]))]

\* sum(1 for s in df['Status'] if s == status)
StatusCount(rows, status) == Cardinality({ i \in 1..Len(rows) : rows[i].Status = status })

\* extract_labels (utils/extract_labels.py): the labels of one file, as
\* strings or as (label, x, y) tuples, after the optional candidate filter,
\* and the invalid designators among them
extract_labels(file, filter, sort, validate, include_coordinates) ==
    LET texts == [i \in 1..Len(file) |-> file[i][1]]
        result == process_circuit_symbol_labels(texts, filter, validate)
        kept == IF filter
                THEN SelectSeq(file, LAMBDA t : AnyMatch(patterns, t[1]))
                ELSE file
    IN  [labels |-> IF include_coordinates THEN kept ELSE result.labels,
         info |-> [invalid_ref_designators |-> result.invalid_ref_designators]]

\* summary_info of one pair
SummaryInfo(name, pair, rows, info_a, info_b, validate, filter) ==
    [sheet_name |-> name,
     file_a_base |-> pair.file_a_base,
     file_b_base |-> pair.file_b_base,
     a_only_count |-> StatusCount(rows, "A Only"),
     b_only_count |-> StatusCount(rows, "B Only"),
     different_count |-> StatusCount(rows, "Different"),
     total_labels |-> Len(rows),
     invalid_a_count |-> IF validate /\ filter
                         THEN Len(info_a.invalid_ref_designators) ELSE 0,
     invalid_b_count |-> IF validate /\ filter
                         THEN Len(info_b.invalid_ref_designators) ELSE 0]

\* df.to_excel(writer, sheet_name=...): a sheet of that name already in the
\* workbook is written over cell by cell, rows beyond the new frame staying
WriteSheet(sheets, name, rows) ==
    LET old == IF name \in DOMAIN sheets THEN sheets[name] ELSE <<>>
        merged == [i \in 1..Max(Len(rows), Len(old)) |->
                      IF i <= Len(rows) THEN rows[i] ELSE old[i]]
    IN  [n \in DOMAIN sheets \cup {name} |-> IF n = name THEN merged ELSE sheets[n]]

SummarySheet == <<83, 117, 109, 109, 97, 114, 121>>    \* "Summary"

\* the state of one invocation at its start
NewRun(order) ==
    [order |-> order,          \* the batch, as indices into file_pairs
     pc |-> "extract",
     idx |-> 0,                \* enumerate() index of the current pair
     labels_a |-> <<>>, labels_b |-> <<>>,
     info_a |-> <<>>, info_b |-> <<>>,
     data |-> <<>>,            \* the DataFrame rows of each pair processed
     summary_data |-> <<>>,
     sheets |-> <<>>,          \* the workbook: sheet name -> rows
     extracted |-> 0,          \* pairs whose two files were extracted so far
     rounded_with |-> {},      \* tolerances round_coordinate has computed with
     error |-> "none"]

\* the body of the loop after the extraction (lines 69-285) for the current
\* pair of one invocation; all_label_tuples is the order the set of tuples
\* came out in, apply_empty what DataFrame.apply returns on a frame without
\* rows ("frame": older pandas, the assignment to df['Status'] then raises
\* ValueError; "series": the assignment succeeds)
CompareStep(run, pair, filter, validate, with_coordinates, tolerance, all_label_tuples, apply_empty) ==
    LET name == sheet_name(pair.pair_name, run.idx)
        some_label == run.labels_a # <<>> \/ run.labels_b # <<>>
        counter_a_ == IF with_coordinates
                      THEN CounterOf(RoundedLabels(run.labels_a, tolerance))
                      ELSE CounterOf(run.labels_a)
        counter_b_ == IF with_coordinates
                      THEN CounterOf(RoundedLabels(run.labels_b, tolerance))
                      ELSE CounterOf(run.labels_b)
        rows == IF with_coordinates
                THEN CoordinateRows(all_label_tuples, counter_a_, counter_b_)
                ELSE AgnosticRows(counter_a_, counter_b_)
        invalid_a == run.info_a.invalid_ref_designators
        invalid_b == run.info_b.invalid_ref_designators
        max_len == Max(Len(invalid_a), Len(invalid_b))
        validation_rows ==
            [i \in 1..max_len |->
                [invalid_a |-> IF i <= Len(invalid_a) THEN invalid_a[i] ELSE <<>>,
                 invalid_b |-> IF i <= Len(invalid_b) THEN invalid_b[i] ELSE <<>>]]
        validation_sheet_name ==
            LET n == name \o <<95, 73, 110, 118, 97, 108, 105, 100>>
            IN  SubSeq(n, 1, Min(Len(n), SheetNameMax))
        sheets1 == WriteSheet(run.sheets, name, rows)
        sheets2 == IF validate /\ filter /\ (invalid_a # <<>> \/ invalid_b # <<>>)
                   THEN WriteSheet(sheets1, validation_sheet_name, validation_rows)
                   ELSE sheets1
    IN  IF with_coordinates /\ tolerance = 0 /\ some_label
        THEN \* value / tolerance raises ZeroDivisionError
             [run EXCEPT !.pc = "raised", !.error = "ZeroDivisionError"]
        ELSE IF with_coordinates /\ rows = <<>>
        THEN \* pd.DataFrame([]) has no 'Status' column: df['Status'] raises
             [run EXCEPT !.pc = "raised", !.error = "KeyError",
                         !.sheets = sheets2]
        ELSE IF ~with_coordinates /\ rows = <<>> /\ apply_empty = "frame"
        THEN [run EXCEPT !.pc = "raised", !.error = "ValueError"]
        ELSE [run EXCEPT !.pc = "extract",
                         !.idx = @ + 1,
                         !.data = Append(@, rows),
                         !.sheets = sheets2,
                         !.summary_data = Append(@,
                             SummaryInfo(name, pair, rows, run.info_a, run.info_b,
                                         validate, filter)),
                         !.rounded_with =
                             IF with_coordinates /\ some_label
                             THEN @ \cup {tolerance} ELSE @]

\* The batches compare_labels_multi is exercised on
S1 == <<83, 49>>                 \* the pair name "S1"
FileTuples == { <<R1, 0, 0>>, <<R1, 1, 0>>, <<R2, 0, 0>> }
FileContents == UNION { [1..n -> FileTuples] : n \in 0..MaxFileLabels }
Tolerances == { -1, 0, 1, 2 }
SortOrders == { "asc", "desc", "none" }
DiffPairs ==
    [file_a : FileContents, file_b : FileContents, pair_name : { <<>>, S1 },
     file_a_base : { <<97>> }, file_b_base : { <<98>> }]
BatchContents == { <<>>, << <<R1, 0, 0>> >>, << <<R1, 0, 0>>, <<R2, 0, 0>> >> }
BatchPairs ==
    [file_a : BatchContents, file_b : BatchContents, pair_name : { <<>>, S1 },
     file_a_base : { <<97>> }, file_b_base : { <<98>> }]
MaxPairs == 2        \* pairs of one batch
Reverse(seq) == [i \in 1..Len(seq) |-> seq[Len(seq) + 1 - i]]

(***************************************************************************)
(* The page script: app.app                                                *)
(***************************************************************************)
\* compare_labels_multi as app() calls it (lines 182-187, without the
\* coordinate options): the extraction and the comparison of every pair in
\* turn, then the Summary sheet; the result is the final state of the call.
\* A temporary file that is not a readable DXF file makes extract_labels raise
RECURSIVE compare_labels_multi(_, _, _, _, _, _)
compare_labels_multi(run, pairs, filter, sort, validate, apply_empty) ==
    IF run.pc = "raised" THEN run
    ELSE IF run.idx = Len(pairs)
    THEN [run EXCEPT !.pc = "returned",
                     !.sheets = WriteSheet(@, SummarySheet, run.summary_data)]
    ELSE LET pair == pairs[run.idx + 1]
             ea == extract_labels(pair.file_a, filter, sort, validate, FALSE)
             eb == extract_labels(pair.file_b, filter, sort, validate, FALSE)
             extracted == [run EXCEPT !.labels_a = ea.labels, !.info_a = ea.info,
                                      !.labels_b = eb.labels, !.info_b = eb.info,
                                      !.extracted = @ + 1,
                                      !.pc = "compare"]
         IN  IF ~pair.readable_a \/ ~pair.readable_b
             THEN [run EXCEPT !.pc = "raised", !.error = "ExtractionError"]
             ELSE compare_labels_multi(
                      CompareStep(extracted, pair, filter, validate, FALSE, 1,
                                  <<>>, apply_empty),
                      pairs, filter, sort, validate, apply_empty)

\* the argument tuple (file_a, file_b, temp_file_a, temp_file_b, pair_name) as
\* compare_labels_multi reads it: the temporary files hold the uploads' bytes
TempPair(tp) ==
    [file_a |-> tp.file_a.content, file_b |-> tp.file_b.content,
     readable_a |-> tp.file_a.readable, readable_b |-> tp.file_b.readable,
     pair_name |-> tp.pair_name,
     file_a_base |-> tp.file_a.name, file_b_base |-> tp.file_b.name]

\* lines 208-240: the completion message and the download button are shown
\* when st.session_state holds a non-empty excel_result
Display(session, error) ==
    [error |-> error, completed |-> "excel_result" \in DOMAIN session]

\* The uploads app() is exercised on
AppFiles ==
    { [name |-> <<97>>, content |-> << <<R1, 0, 0>> >>, readable |-> TRUE],
      [name |-> <<97>>, content |-> <<>>, readable |-> FALSE] }
AppPairs == [fileA : AppFiles, fileB : AppFiles, name : { S1 }]
AppBatches == UNION { [1..n -> AppPairs] : n \in 1..MaxPairs }
MaxClicks == 2       \* clicks on the compare button

(***************************************************************************)
(* Values of the variables a behaviour does not use                        *)
(***************************************************************************)
IdleAgg == counter_a = <<>> /\ counter_b = <<>> /\ label_summary = <<>>
IdleChg == group_a = <<>> /\ group_b = <<>> /\ change_pairs = <<>> /\ change_rows = <<>>
IdleCls == labels = <<>> /\ filter_result = <<>> /\ process_result = <<>>
IdleOpt == filter_non_parts = FALSE /\ validate_ref_designators = FALSE
IdleCmp ==
    /\ file_pairs = <<>>
    /\ sort_order = "asc"
    /\ compare_with_coordinates = FALSE
    /\ coordinate_tolerance = 1
    /\ runs = <<>>
IdleRnd ==
    /\ round_value = 0
    /\ round_tolerance = 1
    /\ rounded = 0
    /\ rounded_again = 0
    /\ rounded_cc = 0
IdleApp ==
    /\ file_pairs_valid = <<>>
    /\ app_pc = "idle"
    /\ attempt = 0
    /\ temp_file_pairs = <<>>
    /\ temp_files_to_cleanup = <<>>
    /\ temp_files = {}
    /\ session_state = <<>>
    /\ shown = <<>>

(***************************************************************************)
(* Specification of the coordinate aggregator                              *)
(***************************************************************************)
InitAgg ==
    /\ unit = "aggregator"
    /\ called = {}
    /\ counter_a \in AggCounters
    /\ counter_b \in AggCounters
    /\ label_summary = <<>>
    /\ IdleChg /\ IdleCls /\ IdleOpt /\ IdleCmp /\ IdleRnd /\ IdleApp

AggregateByLabel ==
    /\ unit = "aggregator"
    /\ "aggregate_by_label" \notin called
    /\ label_summary' = aggregate_by_label(counter_a, counter_b)
    /\ called' = called \cup {"aggregate_by_label"}
    /\ UNCHANGED <<unit, counter_a, counter_b, chgVars, clsVars, optVars, cmpVars, rndVars, appVars>>

NextAgg == AggregateByLabel
SpecAgg == InitAgg /\ [][NextAgg]_vars

(***************************************************************************)
(* Specification of the rename detector                                    *)
(***************************************************************************)
InitChg ==
    /\ unit = "rename"
    /\ called = {}
    /\ group_a \in ChgGroups
    /\ group_b \in ChgGroups
    /\ change_pairs = <<>>
    /\ change_rows = <<>>
    /\ IdleAgg /\ IdleCls /\ IdleOpt /\ IdleCmp /\ IdleRnd /\ IdleApp

FindLabelChangePairs ==
    /\ unit = "rename"
    /\ "find_label_change_pairs" \notin called
    /\ change_pairs' = find_label_change_pairs(group_a, group_b)
    /\ called' = called \cup {"find_label_change_pairs"}
    /\ UNCHANGED <<unit, group_a, group_b, change_rows, aggVars, clsVars, optVars, cmpVars, rndVars, appVars>>

BuildLabelChangeRows ==
    /\ unit = "rename"
    /\ "find_label_change_pairs" \in called
    /\ "build_label_change_rows" \notin called
    /\ change_rows' = build_label_change_rows(change_pairs)
    /\ called' = called \cup {"build_label_change_rows"}
    /\ UNCHANGED <<unit, group_a, group_b, change_pairs, aggVars, clsVars, optVars,
                   cmpVars, rndVars, appVars>>

NextChg == FindLabelChangePairs \/ BuildLabelChangeRows
SpecChg == InitChg /\ [][NextChg]_vars

(***************************************************************************)
(* Specification of the symbol classifier                                  *)
(***************************************************************************)
InitCls ==
    /\ unit = "classifier"
    /\ called = {}
    /\ labels \in ClsInputs
    /\ filter_non_parts \in BOOLEAN
    /\ validate_ref_designators \in BOOLEAN
    /\ filter_result = <<>>
    /\ process_result = <<>>
    /\ IdleAgg /\ IdleChg /\ IdleCmp /\ IdleRnd /\ IdleApp

FilterNonCircuitSymbols ==
    /\ unit = "classifier"
    /\ "filter_non_circuit_symbols" \notin called
    /\ filter_result' = filter_non_circuit_symbols(labels)
    /\ called' = called \cup {"filter_non_circuit_symbols"}
    /\ UNCHANGED <<unit, labels, process_result, aggVars, chgVars, optVars, cmpVars, rndVars, appVars>>

ProcessCircuitSymbolLabels ==
    /\ unit = "classifier"
    /\ "process_circuit_symbol_labels" \notin called
    /\ process_result' = process_circuit_symbol_labels(labels, filter_non_parts,
                                                        validate_ref_designators)
    /\ called' = called \cup {"process_circuit_symbol_labels"}
    /\ UNCHANGED <<unit, labels, filter_result, aggVars, chgVars, optVars, cmpVars, rndVars, appVars>>

NextCls == FilterNonCircuitSymbols \/ ProcessCircuitSymbolLabels
SpecCls == InitCls /\ [][NextCls]_vars

(***************************************************************************)
(* Specification of the batch comparison.  SpecDiff runs compare_labels_   *)
(* multi on one pair; SpecBatch runs it on a batch and, afterwards, on the  *)
(* same batch in the reverse order.                                        *)
(***************************************************************************)
InitOptions ==
    /\ filter_non_parts \in BOOLEAN
    /\ validate_ref_designators \in BOOLEAN
    /\ sort_order \in SortOrders
    /\ \/ compare_with_coordinates = TRUE /\ coordinate_tolerance \in Tolerances
       \/ compare_with_coordinates = FALSE /\ coordinate_tolerance = 1

InitDiff ==
    /\ unit = "diff"
    /\ called = {}
    /\ file_pairs \in [1..1 -> DiffPairs]
    /\ InitOptions
    /\ runs = [o \in {"fwd"} |-> NewRun(<<1>>)]
    /\ IdleAgg /\ IdleChg /\ IdleCls /\ IdleRnd /\ IdleApp

InitBatch ==
    /\ unit = "diff"
    /\ called = {}
    /\ file_pairs \in UNION { [1..n -> BatchPairs] : n \in 1..MaxPairs }
    /\ InitOptions
    /\ runs = [o \in {"fwd", "rev"} |->
                 LET order == [i \in 1..Len(file_pairs) |-> i]
                 IN  NewRun(IF o = "fwd" THEN order ELSE Reverse(order))]
    /\ IdleAgg /\ IdleChg /\ IdleCls /\ IdleRnd /\ IdleApp

Finished(run) == run.pc \in {"returned", "raised"}
\* the second invocation starts when the first one is over
Active(o) ==
    /\ unit = "diff"
    /\ o \in DOMAIN runs
    /\ o = "rev" => Finished(runs["fwd"])

CurrentPair(run) == file_pairs[run.order[run.idx + 1]]

\* lines 54-67: the two extract_labels calls for the current pair
ExtractPair(o) ==
    /\ Active(o)
    /\ runs[o].pc = "extract"
    /\ runs[o].idx < Len(runs[o].order)
    /\ LET pair == CurrentPair(runs[o])
           ea == extract_labels(pair.file_a, filter_non_parts, sort_order,
                                validate_ref_designators, compare_with_coordinates)
           eb == extract_labels(pair.file_b, filter_non_parts, sort_order,
                                validate_ref_designators, compare_with_coordinates)
       IN  runs' = [runs EXCEPT ![o] =
                       [@ EXCEPT !.labels_a = ea.labels, !.info_a = ea.info,
                                 !.labels_b = eb.labels, !.info_b = eb.info,
                                 !.extracted = @ + 1,
                                 !.pc = "compare"]]
    /\ UNCHANGED <<unit, called, file_pairs, sort_order, compare_with_coordinates,
                   coordinate_tolerance, aggVars, chgVars, clsVars, optVars,
                   rndVars, appVars>>

\* Plausible slip: a failed extraction is caught and the pair is left out
ExtractFailsSkipped(o) ==
    /\ Active(o)
    /\ runs[o].pc = "extract"
    /\ runs[o].idx < Len(runs[o].order)
    /\ \E failing \in {"a", "b"} :
           runs' = [runs EXCEPT ![o] =
                       [@ EXCEPT !.idx = @ + 1, !.error = "ExtractionError"]]
    /\ UNCHANGED <<unit, called, file_pairs, sort_order, compare_with_coordinates,
                   coordinate_tolerance, aggVars, chgVars, clsVars, optVars,
                   rndVars, appVars>>

\* lines 54-67 when one of the two extract_labels calls raises: the loop has
\* no handler, so the exception leaves compare_labels_multi; a failure of the
\* second call comes after the first one has returned
ExtractFails(o) ==
    /\ Active(o)
    /\ runs[o].pc = "extract"
    /\ runs[o].idx < Len(runs[o].order)
    /\ \E failing \in {"a", "b"} :
           LET pair == CurrentPair(runs[o])
               ea == extract_labels(pair.file_a, filter_non_parts, sort_order,
                                    validate_ref_designators, compare_with_coordinates)
           IN  runs' = [runs EXCEPT ![o] =
                           [@ EXCEPT !.labels_a = IF failing = "b" THEN ea.labels ELSE @,
                                     !.info_a = IF failing = "b" THEN ea.info ELSE @,
                                     !.pc = "raised",
                                     !.error = "ExtractionError"]]
    /\ UNCHANGED <<unit, called, file_pairs, sort_order, compare_with_coordinates,
                   coordinate_tolerance, aggVars, chgVars, clsVars, optVars,
                   rndVars, appVars>>

\* lines 69-285: the comparison of the current pair, its sheets and its
\* summary entry
ComparePair(o) ==
    /\ Active(o)
    /\ runs[o].pc = "compare"
    /\ LET run == runs[o]
           keys == IF compare_with_coordinates /\ coordinate_tolerance # 0
                   THEN { RoundedLabels(run.labels_a, coordinate_tolerance)[i] :
                            i \in 1..Len(run.labels_a) }
                        \cup { RoundedLabels(run.labels_b, coordinate_tolerance)[i] :
                                 i \in 1..Len(run.labels_b) }
                   ELSE {}
       IN  \E all_label_tuples \in LabelSortedOrders(keys) :
           \E apply_empty \in {"frame", "series"} :
               runs' = [runs EXCEPT ![o] =
                           CompareStep(run, CurrentPair(run), filter_non_parts,
                                       validate_ref_designators,
                                       compare_with_coordinates, coordinate_tolerance,
                                       all_label_tuples, apply_empty)]
    /\ UNCHANGED <<unit, called, file_pairs, sort_order, compare_with_coordinates,
                   coordinate_tolerance, aggVars, chgVars, clsVars, optVars,
                   rndVars, appVars>>

\* lines 287-347: the Summary sheet and the return of the workbook
WriteSummary(o) ==
    /\ Active(o)
    /\ runs[o].pc = "extract"
    /\ runs[o].idx = Len(runs[o].order)
    /\ runs' = [runs EXCEPT ![o] =
                   [@ EXCEPT !.pc = "returned",
                             !.sheets = WriteSheet(@, SummarySheet,
                                                   runs[o].summary_data)]]
    /\ UNCHANGED <<unit, called, file_pairs, sort_order, compare_with_coordinates,
                   coordinate_tolerance, aggVars, chgVars, clsVars, optVars,
                   rndVars, appVars>>

NextDiff ==
    \E o \in {"fwd", "rev"} :
        ExtractPair(o) \/ ExtractFails(o) \/ ComparePair(o) \/ WriteSummary(o)
SpecDiff == InitDiff /\ [][NextDiff]_vars
SpecBatch == InitBatch /\ [][NextDiff]_vars

(***************************************************************************)
(* SpecSwap runs compare_labels_multi on a batch of two unnamed pairs, the *)
(* second being the first with its two files exchanged, without            *)
(* coordinates or with a tolerance of 1.                                   *)
(***************************************************************************)
Swapped(pair) ==
    [pair EXCEPT !.file_a = pair.file_b, !.file_b = pair.file_a,
                 !.file_a_base = pair.file_b_base,
                 !.file_b_base = pair.file_a_base]

InitSwap ==
    /\ unit = "diff"
    /\ called = {}
    /\ \E p \in DiffPairs : p.pair_name = <<>> /\ file_pairs = <<p, Swapped(p)>>
    /\ filter_non_parts \in BOOLEAN
    /\ validate_ref_designators \in BOOLEAN
    /\ sort_order \in SortOrders
    /\ compare_with_coordinates \in BOOLEAN
    /\ coordinate_tolerance = 1
    /\ runs = [o \in {"fwd"} |-> NewRun(<<1, 2>>)]
    /\ IdleAgg /\ IdleChg /\ IdleCls /\ IdleRnd /\ IdleApp

SpecSwap == InitSwap /\ [][NextDiff]_vars

(***************************************************************************)
(* Specification of the coordinate rounding: both definitions of           *)
(* round_coordinate applied to a value, and the one of compare_labels.py   *)
(* applied to its own result.                                              *)
(***************************************************************************)
InitRound ==
    /\ unit = "rounding"
    /\ called = {}
    /\ round_value \in (0 - MaxCoordinate)..MaxCoordinate
    /\ round_tolerance \in 1..MaxTolerance
    /\ rounded = 0
    /\ rounded_again = 0
    /\ rounded_cc = 0
    /\ IdleAgg /\ IdleChg /\ IdleCls /\ IdleOpt /\ IdleCmp /\ IdleApp

RoundCoordinate ==
    /\ unit = "rounding"
    /\ "round_coordinate" \notin called
    /\ rounded' = round_coordinate(round_value, round_tolerance)
    /\ called' = called \cup {"round_coordinate"}
    /\ UNCHANGED <<unit, round_value, round_tolerance, rounded_again, rounded_cc,
                   aggVars, chgVars, clsVars, optVars, cmpVars, appVars>>

RoundCoordinateAgain ==
    /\ unit = "rounding"
    /\ "round_coordinate" \in called
    /\ "round_coordinate again" \notin called
    /\ rounded_again' = round_coordinate(rounded, round_tolerance)
    /\ called' = called \cup {"round_coordinate again"}
    /\ UNCHANGED <<unit, round_value, round_tolerance, rounded, rounded_cc,
                   aggVars, chgVars, clsVars, optVars, cmpVars, appVars>>

CoordinateComparisonRoundCoordinate ==
    /\ unit = "rounding"
    /\ "coordinate_comparison.round_coordinate" \notin called
    /\ rounded_cc' = coordinate_comparison_round_coordinate(round_value, round_tolerance)
    /\ called' = called \cup {"coordinate_comparison.round_coordinate"}
    /\ UNCHANGED <<unit, round_value, round_tolerance, rounded, rounded_again,
                   aggVars, chgVars, clsVars, optVars, cmpVars, appVars>>

NextRound == RoundCoordinate \/ RoundCoordinateAgain \/ CoordinateComparisonRoundCoordinate
SpecRound == InitRound /\ [][NextRound]_vars

(***************************************************************************)
(* Specification of the page script app(): clicks on the compare button,   *)
(* on the restart button, and changes of the uploaded files.               *)
(***************************************************************************)
InitApp ==
    /\ unit = "app"
    /\ called = {}
    /\ file_pairs_valid \in AppBatches
    /\ filter_non_parts \in BOOLEAN
    /\ validate_ref_designators \in BOOLEAN
    /\ sort_order = "asc"
    /\ app_pc = "idle"
    /\ attempt = 0
    /\ temp_file_pairs = <<>>
    /\ temp_files_to_cleanup = <<>>
    /\ temp_files = {}
    /\ session_state = <<>>
    /\ shown = Display(<<>>, FALSE)
    /\ compare_with_coordinates = FALSE
    /\ coordinate_tolerance = 1
    /\ file_pairs = <<>>
    /\ runs = <<>>
    /\ IdleAgg /\ IdleChg /\ IdleCls /\ IdleRnd

\* lines 169-173: the compare button is clicked
ClickCompare ==
    /\ unit = "app"
    /\ app_pc = "idle"
    /\ file_pairs_valid # <<>>
    /\ attempt < MaxClicks
    /\ attempt' = attempt + 1
    /\ app_pc' = "saving"
    /\ temp_file_pairs' = <<>>
    /\ temp_files_to_cleanup' = <<>>
    /\ UNCHANGED <<unit, called, file_pairs_valid, temp_files, session_state, shown,
                   aggVars, chgVars, clsVars, optVars, cmpVars, rndVars>>

\* the names of the two temporary files of the i-th pair of this click
TempA(i) == <<attempt, i, "a">>
TempB(i) == <<attempt, i, "b">>

\* lines 175-179: one iteration of the loop that saves the uploads
SavePair ==
    /\ unit = "app"
    /\ app_pc = "saving"
    /\ Len(temp_file_pairs) < Len(file_pairs_valid)
    /\ LET i == Len(temp_file_pairs) + 1
           pair == file_pairs_valid[i]
       IN  /\ temp_files' = temp_files \cup {TempA(i), TempB(i)}
           /\ temp_file_pairs' = Append(temp_file_pairs,
                  [file_a |-> pair.fileA, file_b |-> pair.fileB,
                   temp_file_a |-> TempA(i), temp_file_b |-> TempB(i),
                   pair_name |-> pair.name])
           /\ temp_files_to_cleanup' = temp_files_to_cleanup \o <<TempA(i), TempB(i)>>
    /\ UNCHANGED <<unit, called, file_pairs_valid, app_pc, attempt, session_state,
                   shown, aggVars, chgVars, clsVars, optVars, cmpVars, rndVars>>

\* lines 175-179 when save_uploadedfile raises while writing (common_utils
\* line 9): NamedTemporaryFile(delete=False) has created the file, which
\* stays; the exception reaches line 205, handle_error shows it, and the
\* script goes on to line 208
SavePairFails ==
    /\ unit = "app"
    /\ app_pc = "saving"
    /\ Len(temp_file_pairs) < Len(file_pairs_valid)
    /\ \E failing \in {"a", "b"} :
           LET i == Len(temp_file_pairs) + 1
           IN  temp_files' = temp_files \cup
                   (IF failing = "a" THEN {TempA(i)} ELSE {TempA(i), TempB(i)})
    /\ shown' = Display(session_state, TRUE)
    /\ app_pc' = "idle"
    /\ UNCHANGED <<unit, called, file_pairs_valid, attempt, temp_file_pairs,
                   temp_files_to_cleanup, session_state,
                   aggVars, chgVars, clsVars, optVars, cmpVars, rndVars>>

\* lines 182-240 once every upload is saved: compare_labels_multi is called;
\* when it returns, its result is stored in st.session_state and the
\* temporary files are deleted; when it raises, line 205 catches the
\* exception and lines 189-203 are skipped; then lines 208-240 display
CompareAndDisplay ==
    /\ unit = "app"
    /\ app_pc = "saving"
    /\ Len(temp_file_pairs) = Len(file_pairs_valid)
    /\ \E apply_empty \in {"frame", "series"} :
           LET pairs == [i \in 1..Len(temp_file_pairs) |-> TempPair(temp_file_pairs[i])]
               run == compare_labels_multi(NewRun([i \in 1..Len(pairs) |-> i]), pairs,
                                           filter_non_parts, sort_order,
                                           validate_ref_designators, apply_empty)
               stored == [excel_result |-> [attempt |-> attempt, sheets |-> run.sheets],
                          output_filename |-> "diff_labels.xlsx",
                          processing_settings |->
                              [filter_option |-> filter_non_parts,
                               validate_ref_designators |-> validate_ref_designators,
                               sort_order |-> sort_order]]
           IN  IF run.pc = "returned"
               THEN /\ session_state' = stored
                    /\ temp_files' = temp_files \
                           { temp_files_to_cleanup[k] : k \in 1..Len(temp_files_to_cleanup) }
                    /\ shown' = Display(stored, FALSE)
               ELSE /\ UNCHANGED <<session_state, temp_files>>
                    /\ shown' = Display(session_state, TRUE)
    /\ app_pc' = "idle"
    /\ UNCHANGED <<unit, called, file_pairs_valid, attempt, temp_file_pairs,
                   temp_files_to_cleanup,
                   aggVars, chgVars, clsVars, optVars, cmpVars, rndVars>>

\* lines 243-248: the restart button, shown with the result, deletes the
\* three keys and reruns the script
RestartButton ==
    /\ unit = "app"
    /\ app_pc = "idle"
    /\ shown.completed
    /\ session_state' = <<>>
    /\ shown' = Display(<<>>, FALSE)
    /\ UNCHANGED <<unit, called, file_pairs_valid, app_pc, attempt, temp_file_pairs,
                   temp_files_to_cleanup, temp_files,
                   aggVars, chgVars, clsVars, optVars, cmpVars, rndVars>>

\* lines 76-107: the user uploads other files, which reruns the script
\* without a click on the compare button
ChangeUploads ==
    /\ unit = "app"
    /\ app_pc = "idle"
    /\ \E batch \in AppBatches :
           /\ batch # file_pairs_valid
           /\ file_pairs_valid' = batch
    /\ shown' = Display(session_state, FALSE)
    /\ UNCHANGED <<unit, called, app_pc, attempt, temp_file_pairs,
                   temp_files_to_cleanup, temp_files, session_state,
                   aggVars, chgVars, clsVars, optVars, cmpVars, rndVars>>

NextApp ==
    \/ ClickCompare \/ SavePair \/ SavePairFails \/ CompareAndDisplay
    \/ RestartButton \/ ChangeUploads
SpecApp == InitApp /\ [][NextApp]_vars

(***************************************************************************)
(* Claims about the coordinate aggregator                                  *)
(***************************************************************************)
\* sum of c[k] over the keys K
RECURSIVE SumCounts(_, _)
SumCounts(c, K) ==
    IF K = {} THEN 0
    ELSE LET k == CHOOSE x \in K : TRUE IN c[k] + SumCounts(c, K \ {k})

\* total occurrences of a label in a Counter of (label, x, y) tuples
TotalOf(c, label) == SumCounts(c, { t \in DOMAIN c : t[1] = label })

AggKeys == DOMAIN counter_a \cup DOMAIN counter_b
AggLabels == { t[1] : t \in AggKeys }
AggDone == unit = "aggregator" /\ "aggregate_by_label" \in called

\* sum over the tuples of a label of f(count in A, count in B)
RECURSIVE SumMin(_)
SumMin(K) ==
    IF K = {} THEN 0
    ELSE LET k == CHOOSE x \in K : TRUE
         IN  Min(Get0(counter_a, k), Get0(counter_b, k)) + SumMin(K \ {k})
RECURSIVE SumExcessA(_)
SumExcessA(K) ==
    IF K = {} THEN 0
    ELSE LET k == CHOOSE x \in K : TRUE
         IN  Max(Get0(counter_a, k) - Get0(counter_b, k), 0) + SumExcessA(K \ {k})
RECURSIVE SumExcessB(_)
SumExcessB(K) ==
    IF K = {} THEN 0
    ELSE LET k == CHOOSE x \in K : TRUE
         IN  Max(Get0(counter_b, k) - Get0(counter_a, k), 0) + SumExcessB(K \ {k})

\* C2: completeness of reconciliation. For every label of either counter the
\* summary holds three non-negative integers with a_only + common = total
\* occurrences of the label in A and b_only + common = total occurrences in B.
C2_Completeness ==
    AggDone =>
        \A l \in AggLabels :
            /\ l \in DOMAIN label_summary
            /\ label_summary[l].a_only >= 0
            /\ label_summary[l].b_only >= 0
            /\ label_summary[l].common >= 0
            /\ label_summary[l].a_only + label_summary[l].common = TotalOf(counter_a, l)
            /\ label_summary[l].b_only + label_summary[l].common = TotalOf(counter_b, l)

\* a tuple held by both counters with different counts has been reconciled
C2_Witness ==
    /\ AggDone
    /\ \E t \in DOMAIN counter_a \cap DOMAIN counter_b :
          /\ counter_a[t] > counter_b[t]
          /\ label_summary[t[1]].a_only > 0
          /\ label_summary[t[1]].common > 0

\* C3: reconciliation is by exact (label, x, y) tuple. For every label,
\* common is the sum over its tuples of min(count in A, count in B), a_only
\* the sum of max(count in A - count in B, 0) and b_only the sum of
\* max(count in B - count in A, 0); the summary has no other label.
C3_ExactTuple ==
    AggDone =>
        /\ DOMAIN label_summary = AggLabels
        /\ \A l \in AggLabels :
              LET K == { t \in AggKeys : t[1] = l }
              IN  /\ label_summary[l].common = SumMin(K)
                  /\ label_summary[l].a_only = SumExcessA(K)
                  /\ label_summary[l].b_only = SumExcessB(K)

\* the example of the specification, and the same label at two positions
\* contributing nothing to common
C3_Witness ==
    /\ AggDone
    /\ \/ /\ counter_a = (<<R10, 100, 200>> :> 2)
          /\ counter_b = (<<R10, 100, 200>> :> 1) @@ (<<R20, 300, 400>> :> 1)
          /\ label_summary[R10] = [a_only |-> 1, b_only |-> 0, common |-> 1]
          /\ label_summary[R20] = [a_only |-> 0, b_only |-> 1, common |-> 0]
       \/ /\ counter_a = (<<R10, 100, 200>> :> 1)
          /\ counter_b = (<<R10, 300, 400>> :> 1)
          /\ label_summary[R10] = [a_only |-> 1, b_only |-> 1, common |-> 0]

(***************************************************************************)
(* Claims about the rename detector                                        *)
(***************************************************************************)
ChgDone == unit = "rename" /\ "find_label_change_pairs" \in called

\* the change pairs emitted for one coordinate, in order of emission
PairsAt(coord) == SelectSeq(change_pairs, LAMBDA p : p.coordinate = coord)

\* the leftover of a label on one side: its count minus the shared minimum
Leftover(mine, other, l) == Get0(mine, l) - Min(Get0(mine, l), Get0(other, l))
RECURSIVE LeftoverSum(_, _, _)
LeftoverSum(mine, other, L) ==
    IF L = {} THEN 0
    ELSE LET l == CHOOSE x \in L : TRUE
         IN  Leftover(mine, other, l) + LeftoverSum(mine, other, L \ {l})
LeftoverSize(mine, other) == LeftoverSum(mine, other, ChgLabels)
\* the i-th smallest leftover occurrence of a side
IthLeftover(mine, other, i) ==
    CHOOSE l \in ChgLabels :
        LET below == LeftoverSum(mine, other, { k \in ChgLabels : SeqLess(k, l) })
        IN  below < i /\ i <= below + Leftover(mine, other, l)
\* number of entries of a sequence of pairs whose field names label l
CountA(P, l) == Cardinality({ i \in 1..Len(P) : P[i].label_a = l })
CountB(P, l) == Cardinality({ i \in 1..Len(P) : P[i].label_b = l })

\* the coordinates of both sides at which both sides keep leftovers
BothLeftCoords ==
    { c \in DOMAIN group_a \cap DOMAIN group_b :
        /\ LeftoverSize(group_a[c], group_b[c]) > 0
        /\ LeftoverSize(group_b[c], group_a[c]) > 0 }

\* C4: at a coordinate of both sides where both sides keep leftovers after
\* cancellation, the i-th smallest leftover of A is paired with the i-th
\* smallest leftover of B up to the shorter length, every surplus occurrence
\* of the longer side is a one-sided pair, and every leftover occurrence is
\* in exactly one pair.
C4_PositionalPairing ==
    ChgDone =>
        \A c \in BothLeftCoords :
            LET P == PairsAt(c)
                na == LeftoverSize(group_a[c], group_b[c])
                nb == LeftoverSize(group_b[c], group_a[c])
                m == Min(na, nb)
            IN  /\ Len(P) = Max(na, nb)
                /\ \A i \in 1..m :
                      /\ P[i].label_a = IthLeftover(group_a[c], group_b[c], i)
                      /\ P[i].label_b = IthLeftover(group_b[c], group_a[c], i)
                /\ \A i \in (m + 1)..Len(P) :
                      IF na > nb
                      THEN /\ P[i].label_a = IthLeftover(group_a[c], group_b[c], i)
                           /\ P[i].label_b = None
                      ELSE /\ P[i].label_a = None
                           /\ P[i].label_b = IthLeftover(group_b[c], group_a[c], i)
                /\ \A l \in ChgLabels :
                      /\ CountA(P, l) = Leftover(group_a[c], group_b[c], l)
                      /\ CountB(P, l) = Leftover(group_b[c], group_a[c], l)

\* the example of the specification: A = {R1, R1, R2}, B = {R1, R3} at one
\* coordinate gives exactly (R1, R3) and (R2, empty)
C4_Witness ==
    /\ ChgDone
    /\ <<10, 10>> \in DOMAIN group_a \cap DOMAIN group_b
    /\ group_a[<<10, 10>>] = (R1 :> 2) @@ (R2 :> 1)
    /\ group_b[<<10, 10>>] = (R1 :> 1) @@ (R3 :> 1)
    /\ PairsAt(<<10, 10>>) = << ChangePair(<<10, 10>>, R1, R3),
                                ChangePair(<<10, 10>>, R2, None) >>

(***************************************************************************)
(* Claims about the symbol classifier                                      *)
(***************************************************************************)
FilterDone == unit = "classifier" /\ "filter_non_circuit_symbols" \in called
ProcessDone == unit = "classifier" /\ "process_circuit_symbol_labels" \in called

IsLetter(c) == c \in (65..90) \cup (97..122)
IsDigit(c) == c \in 48..57
\* the whole string is: two or more letters; letters then digits; or
\* letters, digits, then letters
CoreForm(s) ==
    \E i \in 1..Len(s) : \E j \in i..Len(s) :
        /\ \A k \in 1..i : IsLetter(s[k])
        /\ \A k \in (i + 1)..j : IsDigit(s[k])
        /\ \A k \in (j + 1)..Len(s) : IsLetter(s[k])
        /\ \/ j = i /\ i = Len(s) /\ i >= 2
           \/ j > i
\* ... or one of those three immediately followed by a parenthesized suffix
\* containing no ')'
WholeStringForm(s) ==
    \/ CoreForm(s)
    \/ \E k \in 1..(Len(s) - 2) :
          /\ CoreForm(SubSeq(s, 1, k))
          /\ s[k + 1] = 40
          /\ s[Len(s)] = 41
          /\ \A m \in (k + 2)..(Len(s) - 1) : s[m] # 41

\* C9: filter_non_circuit_symbols keeps a label iff its whole string has one
\* of the accepted forms; the kept list is the input without the rejected
\* labels, order and duplicates preserved, and the exclusion count plus the
\* kept length is the input length.
C9_FilterWholeString ==
    FilterDone =>
        /\ filter_result[1] = SelectSeq(labels, WholeStringForm)
        /\ filter_result[2] + Len(filter_result[1]) = Len(labels)

\* C10: validation is evaluated only when both options are on (otherwise the
\* invalid list is empty); when evaluated, the invalid list is the
\* sub-sequence of the kept labels matching none of the canonical families,
\* and the returned label list is the kept list, invalid labels included.
C10_Validation ==
    ProcessDone =>
        LET kept == IF filter_non_parts
                    THEN SelectSeq(labels,
                             LAMBDA l : \E p \in 1..Len(patterns) : re_match(patterns[p], l))
                    ELSE labels
            NoFamily(l) ==
                \A p \in 1..Len(standard_patterns) : ~re_match(standard_patterns[p], l)
        IN  /\ process_result.labels = kept
            /\ process_result.invalid_ref_designators =
                   IF filter_non_parts /\ validate_ref_designators
                   THEN SelectSeq(kept, NoFamily)
                   ELSE <<>>

\* the example of the specification: kept ['R10', 'ZZZ99'] gives invalid
\* ['ZZZ99'] and labels ['R10', 'ZZZ99']
C10_Witness ==
    /\ ProcessDone
    /\ filter_non_parts /\ validate_ref_designators
    /\ labels = <<R10, ZZZ99>>
    /\ process_result.labels = <<R10, ZZZ99>>
    /\ process_result.invalid_ref_designators = <<ZZZ99>>

(***************************************************************************)
(* Claims about the batch comparison                                       *)
(***************************************************************************)
Fwd == runs["fwd"]
DiffUnit == unit = "diff"
\* the current pair of the first invocation has been through the comparison
Compared == DiffUnit /\ Fwd.extracted = 1 /\ Fwd.pc # "compare"
\* the rows emitted for the first pair (none when the comparison raised
\* before building them)
EmittedRows == IF Len(Fwd.data) >= 1 THEN Fwd.data[1] ELSE <<>>
\* number of occurrences of a label text in an extracted label list
Occurrences(ls, l) ==
    Cardinality({ i \in 1..Len(ls) : (IF compare_with_coordinates THEN ls[i][1] ELSE ls[i]) = l })
LabelsOf(ls) == { (IF compare_with_coordinates THEN ls[i][1] ELSE ls[i]) : i \in 1..Len(ls) }

\* C1: in the coordinate-agnostic comparison exactly one row is emitted per
\* distinct label of the union of A and B; it carries the two occurrence
\* counts, diff = count_b - count_a and exactly one status, 'A Only' iff
\* count_a > 0 and count_b = 0, 'B Only' iff count_a = 0 and count_b > 0,
\* 'Different' iff both > 0 and unequal, 'Same' iff both > 0 and equal.
C1_OneRowPerLabel ==
    (Compared /\ ~compare_with_coordinates) =>
        LET rows == EmittedRows
            union == LabelsOf(Fwd.labels_a) \cup LabelsOf(Fwd.labels_b)
        IN  /\ Len(rows) = Cardinality(union)
            /\ \A l \in union : \E i \in 1..Len(rows) : rows[i].Label = l
            /\ \A i \in 1..Len(rows) :
                 LET a == Occurrences(Fwd.labels_a, rows[i].Label)
                     b == Occurrences(Fwd.labels_b, rows[i].Label)
                 IN  /\ rows[i].count_a = a
                     /\ rows[i].count_b = b
                     /\ rows[i].Diff = b - a
                     /\ rows[i].Status \in {"A Only", "B Only", "Different", "Same"}
                     /\ rows[i].Status = "A Only" <=> (a > 0 /\ b = 0)
                     /\ rows[i].Status = "B Only" <=> (a = 0 /\ b > 0)
                     /\ rows[i].Status = "Different" <=> (a > 0 /\ b > 0 /\ a # b)
                     /\ rows[i].Status = "Same" <=> (a > 0 /\ b > 0 /\ a = b)

\* a finished coordinate-agnostic comparison with a 'Different' row next to
\* a one-sided row
C1_Witness ==
    /\ DiffUnit /\ ~compare_with_coordinates
    /\ Fwd.pc = "returned"
    /\ Len(EmittedRows) = 2
    /\ EmittedRows[1] = [Label |-> R1, count_a |-> 2, count_b |-> 1,
                         Status |-> "Different", Diff |-> -1]
    /\ EmittedRows[2].Status = "B Only"

\* C5: empty label collections are valid input. With A, B or both empty (and
\* a positive tolerance) the comparison does not raise in either mode, every
\* label of the non-empty side is 'A Only' (resp. 'B Only'), and two empty
\* sides give zero rows and a summary entry whose counts are all 0.
C5_EmptyInputs ==
    (/\ Compared
     /\ compare_with_coordinates => coordinate_tolerance > 0
     /\ Fwd.labels_a = <<>> \/ Fwd.labels_b = <<>>) =>
        /\ Fwd.error = "none"
        /\ Len(Fwd.data) = 1 /\ Len(Fwd.summary_data) = 1
        /\ \A i \in 1..Len(EmittedRows) :
             EmittedRows[i].Status = IF Fwd.labels_b = <<>> THEN "A Only" ELSE "B Only"
        /\ LabelsOf(Fwd.labels_a) \cup LabelsOf(Fwd.labels_b)
              = { EmittedRows[i].Label : i \in 1..Len(EmittedRows) }
        /\ (Fwd.labels_a = <<>> /\ Fwd.labels_b = <<>>) =>
              /\ EmittedRows = <<>>
              /\ Fwd.summary_data[1].a_only_count = 0
              /\ Fwd.summary_data[1].b_only_count = 0
              /\ Fwd.summary_data[1].different_count = 0
              /\ Fwd.summary_data[1].total_labels = 0

\* C6: a zero or negative coordinate_tolerance is rejected, with
\* compare_with_coordinates on, before any pair is extracted or reconciled,
\* and round_coordinate never computes with a non-positive tolerance.
C6_RejectNonPositiveTolerance ==
    (DiffUnit /\ compare_with_coordinates /\ coordinate_tolerance <= 0) =>
        \A o \in DOMAIN runs :
            /\ runs[o].extracted = 0
            /\ runs[o].data = <<>>
            /\ \A t \in runs[o].rounded_with : t > 0

\* dict keys of Counter(ls) in insertion order: the labels in order of first
\* occurrence
RECURSIVE FirstOccurrences(_)
FirstOccurrences(ls) ==
    IF ls = <<>> THEN <<>>
    ELSE LET rest == FirstOccurrences(SubSeq(ls, 1, Len(ls) - 1))
             e == ls[Len(ls)]
         IN  IF \E i \in 1..Len(rest) : rest[i] = e THEN rest ELSE Append(rest, e)

\* C7: the order of the rows follows sort_order: ascending by label with
\* 'asc', the reverse with 'desc', and with 'none' the first-encounter order
\* of the union construction (the labels of A, then the new labels of B).
\* Stated for the coordinate-agnostic branch, whose rows have distinct labels.
C7_RowOrderFollowsSortOrder ==
    (Compared /\ ~compare_with_coordinates /\ Len(Fwd.data) = 1) =>
        LET rows == EmittedRows
        IN  /\ sort_order = "asc" =>
                 \A i, j \in 1..Len(rows) :
                     i < j => ~SeqLess(rows[j].Label, rows[i].Label)
            /\ sort_order = "desc" =>
                 \A i, j \in 1..Len(rows) :
                     i < j => ~SeqLess(rows[i].Label, rows[j].Label)
            /\ sort_order = "none" =>
                 [i \in 1..Len(rows) |-> rows[i].Label]
                    = FirstOccurrences(Fwd.labels_a \o Fwd.labels_b)

\* what an invocation produced for the pair file_pairs[p]: its rows, its
\* summary entry and the content of the sheet it is recorded under
PairResult(run, p) ==
    LET k == CHOOSE i \in 1..Len(run.order) : run.order[i] = p
    IN  [rows |-> run.data[k],
         summary |-> run.summary_data[k],
         sheet |-> run.sheets[run.summary_data[k].sheet_name]]

\* C8: batch independence. When the batch [P1, P2] and the batch [P2, P1]
\* have both been processed, each pair has the same rows and the same
\* summary entry, sheet included, in the two invocations.  Stated for pairs
\* that have a label on some side.
C8_BatchIndependence ==
    (/\ DiffUnit
     /\ DOMAIN runs = {"fwd", "rev"}
     /\ \A p \in 1..Len(file_pairs) :
           file_pairs[p].file_a # <<>> \/ file_pairs[p].file_b # <<>>
     /\ runs["fwd"].pc = "returned"
     /\ runs["rev"].pc = "returned") =>
        \A p \in 1..Len(file_pairs) :
            PairResult(runs["fwd"], p) = PairResult(runs["rev"], p)

(***************************************************************************)
(* Claims about the exchange of the two files of a pair                    *)
(***************************************************************************)
SwapStatus(s) ==
    IF s = "A Only" THEN "B Only" ELSE IF s = "B Only" THEN "A Only" ELSE s

\* both pairs of the exchanged batch were compared without coordinates
SwapCompared ==
    /\ DiffUnit
    /\ Len(file_pairs) = 2
    /\ file_pairs[2] = Swapped(file_pairs[1])
    /\ ~compare_with_coordinates
    /\ Len(Fwd.data) = 2

\* C11: comparing (B, A) instead of (A, B) without coordinates gives rows for
\* the same labels, in which 'A Only' and 'B Only' are exchanged, the diff is
\* negated, and 'Same' and 'Different' rows keep their status with count_a
\* and count_b exchanged.
C11_Symmetry ==
    SwapCompared =>
        LET X == Fwd.data[1]
            Y == Fwd.data[2]
        IN  /\ Len(Y) = Len(X)
            /\ \A i \in 1..Len(X) :
                   Y[i] = [Label |-> X[i].Label,
                           count_a |-> X[i].count_b,
                           count_b |-> X[i].count_a,
                           Status |-> SwapStatus(X[i].Status),
                           Diff |-> 0 - X[i].Diff]

\* a pair with an 'A Only' and a 'Different' row was compared both ways
C11_Witness ==
    /\ SwapCompared
    /\ \E i, j \in 1..Len(Fwd.data[1]) :
           /\ Fwd.data[1][i].Status = "A Only"
           /\ Fwd.data[1][j].Status = "Different"
           /\ Fwd.data[2][i].Status = "B Only"

(***************************************************************************)
(* Claims about a failing extraction                                       *)
(***************************************************************************)
\* C12: when the extraction of a file of a pair fails, compare_labels_multi
\* ends by raising that failure and returns no workbook (the pair is neither
\* skipped nor processed, no later pair is touched), and a call that returns
\* a workbook has extracted and recorded every pair of the batch.
C12_ExtractionFailurePropagates ==
    DiffUnit =>
        \A o \in DOMAIN runs :
            /\ runs[o].error = "ExtractionError" =>
                   /\ runs[o].pc = "raised"
                   /\ SummarySheet \notin DOMAIN runs[o].sheets
                   /\ runs[o].extracted = runs[o].idx
                   /\ Len(runs[o].summary_data) = runs[o].idx
            /\ runs[o].pc = "returned" =>
                   /\ runs[o].error = "none"
                   /\ runs[o].extracted = Len(runs[o].order)
                   /\ Len(runs[o].summary_data) = Len(runs[o].order)

\* the extraction of the second pair of a batch failed after the first pair
\* had been compared
C12_Witness ==
    /\ DiffUnit
    /\ Fwd.error = "ExtractionError"
    /\ Fwd.idx = 1
    /\ Len(Fwd.order) = 2

OnlyACoords == DOMAIN group_a \ DOMAIN group_b
OnlyBCoords == DOMAIN group_b \ DOMAIN group_a

RECURSIVE CounterTotal(_, _)
CounterTotal(cnt, L) ==
    IF L = {} THEN 0
    ELSE LET l == CHOOSE x \in L : TRUE IN cnt[l] + CounterTotal(cnt, L \ {l})

\* C14: for a coordinate that exists on one side only, every label occurrence
\* there (with multiplicity) is emitted as exactly one change pair whose other
\* label is empty, and no pair of that coordinate has both labels set.
C14_OneSidedCoordinate ==
    ChgDone =>
        /\ \A c \in OnlyACoords :
              LET P == PairsAt(c)
              IN  /\ Len(P) = CounterTotal(group_a[c], DOMAIN group_a[c])
                  /\ \A i \in 1..Len(P) : P[i].label_b = None /\ P[i].label_a # None
                  /\ \A l \in ChgLabels : CountA(P, l) = Get0(group_a[c], l)
        /\ \A c \in OnlyBCoords :
              LET P == PairsAt(c)
              IN  /\ Len(P) = CounterTotal(group_b[c], DOMAIN group_b[c])
                  /\ \A i \in 1..Len(P) : P[i].label_a = None /\ P[i].label_b # None
                  /\ \A l \in ChgLabels : CountB(P, l) = Get0(group_b[c], l)

\* a coordinate of A only that holds R1 twice and R2 once
C14_Witness ==
    /\ ChgDone
    /\ <<10, 10>> \in OnlyACoords
    /\ group_a[<<10, 10>>] = (R1 :> 2) @@ (R2 :> 1)
    /\ PairsAt(<<10, 10>>) = << ChangePair(<<10, 10>>, R1, None),
                                ChangePair(<<10, 10>>, R1, None),
                                ChangePair(<<10, 10>>, R2, None) >>

\* C15: at a coordinate of both sides where, after the cancellation of the
\* identical labels, one side has no leftover, no change pair is emitted, also
\* when the other side still has leftovers.
C15_NoPairWithoutLeftover ==
    ChgDone =>
        \A c \in DOMAIN group_a \cap DOMAIN group_b :
            (\/ LeftoverSize(group_a[c], group_b[c]) = 0
             \/ LeftoverSize(group_b[c], group_a[c]) = 0) => PairsAt(c) = <<>>

\* A = {R1, R2}, B = {R1} at one coordinate: R2 is left over on A, nothing on
\* B, and no pair is emitted there
C15_Witness ==
    /\ ChgDone
    /\ <<10, 10>> \in DOMAIN group_a \cap DOMAIN group_b
    /\ group_a[<<10, 10>>] = (R1 :> 1) @@ (R2 :> 1)
    /\ group_b[<<10, 10>>] = (R1 :> 1)
    /\ PairsAt(<<10, 10>>) = <<>>

RowsDone == unit = "rename" /\ "build_label_change_rows" \in called

\* (Label A, Label B) of one row comes before that of another
RowLess(r, q) ==
    \/ SeqLess(r.Label_A, q.Label_A)
    \/ r.Label_A = q.Label_A /\ SeqLess(r.Label_B, q.Label_B)

\* C17: the rows build_label_change_rows makes of the pairs of
\* find_label_change_pairs are sorted by (label in A, label in B), an absent
\* label being the empty string, for an input of more than one coordinate.
C17_RowsSortedByLabels ==
    (RowsDone /\ Cardinality(DOMAIN group_a \cup DOMAIN group_b) > 1) =>
        \A i, j \in 1..Len(change_rows) :
            i < j => ~RowLess(change_rows[j], change_rows[i])

(***************************************************************************)
(* Claims about the rows of the coordinate branch                          *)
(***************************************************************************)
\* the label summary of the rounded labels of the pair compared
PairSummaryRows ==
    create_data_rows_from_summary(
        aggregate_by_label(
            CounterOf(RoundedLabels(Fwd.labels_a, coordinate_tolerance)),
            CounterOf(RoundedLabels(Fwd.labels_b, coordinate_tolerance))))

\* C16: with compare_with_coordinates the rows of a pair are the rows
\* create_data_rows_from_summary builds from aggregate_by_label: per label at
\* most one 'A Only', one 'B Only' and one 'Same' row, no 'Different' row,
\* ordered by label and within a label A Only, B Only, Same.
C16_CoordinateRowsFromSummary ==
    (/\ Compared
     /\ compare_with_coordinates
     /\ coordinate_tolerance > 0
     /\ Len(Fwd.data) = 1) =>
        LET rows == EmittedRows
            S == PairSummaryRows
        IN  /\ Len(rows) = Len(S)
            /\ \A i \in 1..Len(rows) :
                   /\ i <= Len(S)
                   /\ rows[i].Label = S[i].label
                   /\ rows[i].count_a = S[i].count_a
                   /\ rows[i].count_b = S[i].count_b
                   /\ rows[i].Status = S[i].status
                   /\ rows[i].Diff = S[i].diff

(***************************************************************************)
(* Claims about the sheets of one workbook                                 *)
(***************************************************************************)
InvalidSuffix == <<95, 73, 110, 118, 97, 108, 105, 100>>    \* "_Invalid"

\* the sheet names an invocation has written for its i-th pair: the pair's
\* sheet and, when invalid designators were reported, its '_Invalid' sheet
PairSheetNames(run, i) ==
    LET entry == run.summary_data[i]
        n == entry.sheet_name \o InvalidSuffix
    IN  <<entry.sheet_name>>
        \o (IF entry.invalid_a_count + entry.invalid_b_count > 0
            THEN << SubSeq(n, 1, Min(Len(n), SheetNameMax)) >>
            ELSE <<>>)

RECURSIVE WrittenSheetNames(_, _)
WrittenSheetNames(run, i) ==
    IF i = 0 THEN <<>>
    ELSE WrittenSheetNames(run, i - 1) \o PairSheetNames(run, i)

\* C18: the sheet names written to one workbook (the sheet of every pair, its
\* '_Invalid' sheet, and 'Summary') are pairwise distinct, whatever the pair
\* names are.  Stated for batches in which every pair has a label on some
\* side, and a positive tolerance.
C18_SheetNamesDistinct ==
    (/\ DiffUnit
     /\ compare_with_coordinates => coordinate_tolerance > 0
     /\ \A p \in 1..Len(file_pairs) :
           file_pairs[p].file_a # <<>> \/ file_pairs[p].file_b # <<>>) =>
        \A o \in DOMAIN runs :
            LET names == WrittenSheetNames(runs[o], Len(runs[o].summary_data))
                            \o (IF runs[o].pc = "returned"
                                THEN <<SummarySheet>> ELSE <<>>)
            IN  \A i, j \in 1..Len(names) : i # j => names[i] # names[j]

(***************************************************************************)
(* Claims about the page script                                            *)
(***************************************************************************)
\* no script run is in progress
AppIdle == unit = "app" /\ app_pc = "idle"

\* C19: every temporary file save_uploadedfile created during a click on the
\* compare button is deleted when that script run ends, whether the
\* comparison succeeded or raised (also while saving a later pair's file).
C19_TempFilesDeleted ==
    AppIdle => temp_files = {}

\* C20: whenever the completion message and the download button are shown,
\* the stored excel_result is the one the most recent click on the compare
\* button produced: a failed attempt leaves no earlier workbook on offer.
C20_ResultIsOfLastAttempt ==
    (AppIdle /\ shown.completed) =>
        session_state["excel_result"].attempt = attempt

====
